---- MODULE Spec2Model ----
(***************************************************************************)
(* Model of src/src/timing_analysis/outlier_utils.py: the F-test           *)
(* statistic (Ftest), the epoch-excision loop (epochalyptica) and the      *)
(* outlier-probability pipeline (calculate_pout).                          *)
(*                                                                         *)
(* A TOA set is the pair (orig_table, table): orig_table is the full       *)
(* table, one row per TOA, each row carrying its flags; table is the       *)
(* visible view, the sequence of orig_table indices of the rows not        *)
(* masked (the 'index' column the code reads at line 110).  The timing     *)
(* model is the set of its DMX parameters, one record per parameter.       *)
(* Probabilities are fixed-point numbers in units of 1e-6.                 *)
(***************************************************************************)
EXTENDS Integers, Sequences, FiniteSets, TLC

VARIABLES
    pc,             \* position in the running pipeline
    orig_table,     \* toas.orig_table: Seq of TOA rows
    table,          \* toas.table: Seq of orig_table indices (visible rows)
    table_selects,  \* toas.table_selects: stack of views saved by select()
    model,          \* the caller's timing model: set of DMX parameters
    method,         \* tc_object.get_outlier_method()
    pout,           \* calculate_pout: the sampler's result, <<>> when unbound
    pout_bound,     \* calculate_pout: whether the local pout is bound
    fit_init,       \* epochalyptica: [chi2, ndof, ntoas] of the initial fit
    todo,           \* epochalyptica: filenames the for loop has yet to visit
    epochs_to_drop, \* epochalyptica: the list epochs_to_drop
    fout,           \* epochdrop.txt: [open, lines]
    evals,          \* history: one record per loop iteration that completed
    files,          \* tim files written: name -> <<>> or <<content>>
    calls,          \* history: number of apply_cut_flag / setup_dmx calls
    input,          \* history: the TOA set and model the pipeline was given
    ft              \* result of the last bare Ftest call (SpecFtest)

vars == <<pc, orig_table, table, table_selects, model, method, pout,
          pout_bound, fit_init, todo, epochs_to_drop, fout, evals, files,
          calls, input, ft>>

----------------------------------------------------------------------------
(* Bounds of the model *)

\* number of TOAs in the full table
MaxToas == 3
\* largest argument tried on the bare Ftest function
MaxArg == 3

(* Program constants *)

\* the default ftest_threshold, 1.0e-6, in units of 1e-6
ftest_threshold == 1
\* the float 1.0 of "1.0 - fdtr(...)", in units of 1e-6
One == 1000000

Names == {"a", "b"}
Methods == {"hmc", "gibbs", "nuts"}
\* chi-squared values a fit may return: a refit can come out below, equal to
\* or above the initial fit
Chi2Vals == {1, 2}
\* values of fdtr(): 1.0 - fdtr is then 1.0, exactly the threshold, 0.0
FdtrVals == {0, One - ftest_threshold, One}
PoutVals == {0, 1}

\* The DMX windows of the input model: window i is (2i-1, 2i+1), so an even
\* mjd lies strictly inside one window and an odd one inside none.
WindowIdx == {1, 2}
Mjds == {2, 3, 4}
DMXR1(i) == 2 * i - 1
DMXR2(i) == 2 * i + 1

\* frozen: whether the DMX values are held fixed in a fit (the bounds DMXR1
\* and DMXR2 always are)
InputModel(frozen) ==
    UNION {{[par |-> "DMXR1", idx |-> i, value |-> DMXR1(i), frozen |-> TRUE],
            [par |-> "DMXR2", idx |-> i, value |-> DMXR2(i), frozen |-> TRUE],
            [par |-> "DMX",   idx |-> i, value |-> 0, frozen |-> frozen]} :
           i \in WindowIdx}

\* A flag that is not set is "" (cut) or <<>> (pout_*).
Flags == [name : Names, f : {"L"}, cut : {"", "prior"},
          pout_hmc : {<<>>}, pout_gibbs : {<<>>}]
Toa == [mjd : Mjds, err : {1}, flags : Flags]

\* The TOAs epochalyptica is tried on: it reads the mjd of visible rows only
\* (207, 232), so a row cut earlier is given one mjd.
EpToa == {t \in Toa : t.flags.cut # "" => t.mjd = 3}
\* The TOAs calculate_pout is tried on: it reads no mjd at all.
PoToa == {t \in Toa : t.mjd = 2}

----------------------------------------------------------------------------
(* The TOA set and the timing model: the collaborators' contracts *)

RECURSIVE SelectIdx(_, _)
\* the subsequence of view t whose rows satisfy keep (a set of positions)
SelectIdx(t, keep) ==
    IF t = <<>> THEN <<>>
    ELSE LET rest == SelectIdx(Tail(t), {k - 1 : k \in keep \ {1}})
         IN  IF 1 \in keep THEN <<Head(t)>> \o rest ELSE rest

\* toas.select(maskarray): save the view, keep the rows the mask keeps
SelectTable(t, keep) == SelectIdx(t, keep)
SelectStack(t, sel) == Append(sel, t)

\* toas.unselect(): pop the view saved by the matching select
UnselectTable(t, sel) == IF sel = <<>> THEN t ELSE sel[Len(sel)]
UnselectStack(sel) == IF sel = <<>> THEN sel ELSE SubSeq(sel, 1, Len(sel) - 1)

\* toas.table = toas.orig_table: every row visible again
FullTable(ot) == [i \in 1..Len(ot) |-> i]

\* apply_cut_select: the view of the rows that carry no cut flag
CutSelect(ot) == SelectIdx(FullTable(ot), {i \in 1..Len(ot) : ot[i].flags.cut = ""})

\* apply_cut_flag(toas, inds, reason)
ApplyCutFlag(ot, inds, reason) ==
    [i \in 1..Len(ot) |->
        IF i \in inds THEN [ot[i] EXCEPT !.flags.cut = reason] ELSE ot[i]]

\* Residuals(toas, model).dof: the TOAs, minus one for every parameter that
\* is not frozen, minus one for the implicit offset
Dof(ntoas, m) == ntoas - Cardinality({p \in m : ~p.frozen}) - 1

\* setup_dmx: rebuild the windows around the visible TOAs; a window with no
\* visible TOA strictly inside it is dropped
SetupDmx(m, ot, t) ==
    {p \in m : \E k \in 1..Len(t) :
        /\ ot[t[k]].mjd > DMXR1(p.idx)
        /\ ot[t[k]].mjd < DMXR2(p.idx)}

\* construct_fitter + write_tim: the file holds the model and every visible
\* row with its flags
TimFile(m, ot, t) == [model |-> m, rows |-> [k \in 1..Len(t) |-> ot[t[k]]], index |-> t]

----------------------------------------------------------------------------
(* Ftest, lines 144-169 *)

\* The sentinel False, a float (nan or a number), or an exception raised by
\* the call.
PyFalse == [kind |-> "bool", nan |-> FALSE, val |-> 0]
PyFloat(v) == [kind |-> "float", nan |-> FALSE, val |-> v]
PyNaN == [kind |-> "float", nan |-> TRUE, val |-> 0]
PyRaise == [kind |-> "raise", nan |-> FALSE, val |-> 0]

\* Python's "x < threshold": the bool False compares as the number 0, and
\* every comparison with nan is false
PyLess(x, threshold) == ~x.nan /\ x.val < threshold

\* format(x, 'e'): a bool is an int and is formatted as the float it equals,
\* so False and 0.0 give the same text; nan gives 'nan'
FormatE(x) == [nan |-> x.nan, val |-> x.val]

\* scipy.special.fdtr(dfn, dfd, x): nan outside its domain, else the
\* cumulative probability cdf of the F distribution
Fdtr(dfn, dfd, xneg, cdf) ==
    IF dfn <= 0 \/ dfd <= 0 \/ xneg THEN PyNaN ELSE PyFloat(cdf)

\* 1.0 - y
OneMinus(y) == IF y.nan THEN PyNaN ELSE PyFloat(One - y.val)

\* Ftest with "delta_chi2 >= 0" for its test
FtestGe(chi2_1, dof_1, chi2_2, dof_2, cdf) ==
    LET delta_chi2 == chi2_1 - chi2_2
        delta_dof  == dof_1 - dof_2
    IN  IF delta_chi2 >= 0
        THEN IF dof_2 = 0 \/ delta_dof = 0 \/ chi2_2 = 0
             THEN PyRaise
             ELSE OneMinus(Fdtr(delta_dof, dof_2,
                                (delta_dof < 0) # (dof_2 < 0), cdf))
        ELSE PyFalse

\* cdf is the probability scipy computes for fdtr(delta_dof, dof_2, F) inside
\* its domain.  chi2_2 / dof_2, delta_chi2 / delta_dof and the division by
\* new_redchi2 raise ZeroDivisionError on a zero divisor; F is negative when
\* exactly one of delta_dof and dof_2 is (delta_chi2 and chi2_2 are positive).
Ftest(chi2_1, dof_1, chi2_2, dof_2, cdf) ==
    LET delta_chi2 == chi2_1 - chi2_2
        delta_dof  == dof_1 - dof_2
    IN  IF delta_chi2 > 0
        THEN IF dof_2 = 0 \/ delta_dof = 0 \/ chi2_2 = 0
             THEN PyRaise
             ELSE OneMinus(Fdtr(delta_dof, dof_2,
                                (delta_dof < 0) # (dof_2 < 0), cdf))
        ELSE PyFalse

----------------------------------------------------------------------------
(* epochalyptica, lines 171-276 *)

\* the names gathered from all rows of the view but the last
DistinctNamesDropLast(ot, t) ==
    {ot[t[k]].flags.name : k \in 1..(Len(t) - 1)}

\* set(filenames), filenames = toas.get_flag_value('name')[0]  (190, 197)
DistinctNames(ot, t) == {ot[t[k]].flags.name : k \in 1..Len(t)}

\* the rows of the view for which t[6]['name'] == filename  (207-208)
EpochRows(ot, t, filename) ==
    {k \in 1..Len(t) : ot[t[k]].flags.name = filename}

Min(S) == CHOOSE x \in S : \A y \in S : x <= y

HasParam(m, par, i) == \E p \in m : p.par = par /\ p.idx = i
ParamValue(m, par, i) == (CHOOSE p \in m : p.par = par /\ p.idx = i).value

RECURSIVE FindDmxWindow(_, _, _)
\* the while loop of lines 216-225: the first window, from index i on, that
\* holds toaval strictly inside; 0 when getattr raises AttributeError because
\* the model has no window of index i
FindDmxWindow(m, toaval, i) ==
    IF ~HasParam(m, "DMXR1", i) \/ ~HasParam(m, "DMXR2", i) THEN 0
    ELSE IF toaval > ParamValue(m, "DMXR1", i) /\ toaval < ParamValue(m, "DMXR2", i)
         THEN i
         ELSE FindDmxWindow(m, toaval, i + 1)

RECURSIVE WeightSum(_, _, _)
\* sum of 1/err^2 over the epoch's rows (226), errors being whole numbers
WeightSum(ot, t, rows) ==
    IF rows = {} THEN 0
    ELSE LET k == Min(rows)
         IN  (1 \div (ot[t[k]].err * ot[t[k]].err)) + WeightSum(ot, t, rows \ {k})

\* lines 231-234: visible TOAs strictly inside (dmxlower, dmxupper)
NumToasInDmxRange(ot, t, dmxlower, dmxupper) ==
    Cardinality({k \in 1..Len(t) :
        ot[t[k]].mjd > dmxlower /\ ot[t[k]].mjd < dmxupper})

\* lines 235-241: the model the refit uses
NewModel(m, numtoas_in_dmxrange, dmxindex) ==
    IF numtoas_in_dmxrange = 0
    THEN ((m \ {p \in m : p.par = "DMXR1" /\ p.idx = dmxindex})
             \ {p \in m : p.par = "DMXR2" /\ p.idx = dmxindex})
             \ {p \in m : p.par = "DMX" /\ p.idx = dmxindex}
    ELSE m

\* the iteration ends without toas.unselect()
NoRestore(t, sel) == t

\* line 253: toas.unselect()
RestoreTable(t, sel) == UnselectTable(t, sel)

\* ftest <= ftest_threshold
BelowThresholdLe(ftest) == ~ftest.nan /\ ftest.val <= ftest_threshold

\* line 249: ftest < ftest_threshold
BelowThreshold(ftest) == PyLess(ftest, ftest_threshold)

\* lines 257, 259: np.where(names == etd)[0] over the full table
EpochDropInds(ot, t, etd) == {i \in 1..Len(ot) : ot[i].flags.name = etd}

\* the cut and the DMX set-up done unconditionally
NeedsCutAlways(etd) == TRUE

\* line 263: if len(epochs_to_drop)
NeedsCut(etd) == Len(etd) > 0

\* line 252: whether formatting the line raises; the 'e' format takes a
\* bool or a float, the 'd' format of mjd an int
WriteRaises(ftest) == ftest.kind \notin {"bool", "float"}

\* line 252: the summary line; its last field is 1/sqrt(sum), kept here as
\* the sum it is computed from
SummaryLine(filename, receiver, mjd, removed, ftest, sum) ==
    [filename |-> filename, receiver |-> receiver, mjd |-> mjd,
     removed |-> removed, ftest |-> FormatE(ftest), weight |-> sum]

NoEpoch ==
    [chi2 |-> 0, ndof |-> 0, ntoas |-> 0]

\* lines 184-196: the initial fit, the file opened, the loop set up.
\* redchi2_init (188) and redchi2 (246) are computed and never read.
EpBegin ==
    /\ pc = "ep_start"
    /\ \E chi2_init \in Chi2Vals :
          fit_init' = [chi2 |-> chi2_init,
                       ndof |-> Dof(Len(table), model),
                       ntoas |-> Len(table)]
    /\ fout' = [open |-> TRUE, lines |-> <<>>]
    /\ todo' = DistinctNames(orig_table, table)
    /\ epochs_to_drop' = <<>>
    /\ pc' = "ep_loop"
    /\ UNCHANGED <<orig_table, table, table_selects, model, method, pout,
                   pout_bound, evals, files, calls, input, ft>>

\* lines 197-253: one iteration of the for loop, for the filename the set
\* iteration yields; chi2 is what the refit returns, fitok whether it returns
EpIterate ==
    /\ pc = "ep_loop"
    /\ \E filename \in todo, chi2 \in Chi2Vals, cdf \in FdtrVals, fitok \in BOOLEAN :
        LET rows     == EpochRows(orig_table, table, filename)
            first    == orig_table[table[Min(rows)]]
            receiver == first.flags.f
            mjd      == first.mjd
            toaval   == first.mjd
            dmxindex == FindDmxWindow(model, toaval, 1)
        IN  IF dmxindex = 0
            THEN \* AttributeError at line 218 or 220
                 /\ pc' = "raised_getattr"
                 /\ UNCHANGED <<table, table_selects, model, todo,
                                epochs_to_drop, fout, evals>>
            ELSE
            LET dmxlower == ParamValue(model, "DMXR1", dmxindex)
                dmxupper == ParamValue(model, "DMXR2", dmxindex)
                sum      == WeightSum(orig_table, table, rows)
                maskarray == (1..Len(table)) \ rows
                masked   == SelectTable(table, maskarray)
                stack    == SelectStack(table, table_selects)
                numtoas_in_dmxrange ==
                    NumToasInDmxRange(orig_table, masked, dmxlower, dmxupper)
                newmodel == NewModel(model, numtoas_in_dmxrange, dmxindex)
                ndof     == Dof(Len(masked), newmodel)
                ntoas    == Len(masked)
                ftest    == IF fit_init.ndof # ndof
                            THEN Ftest(fit_init.chi2, fit_init.ndof, chi2, ndof, cdf)
                            ELSE PyFalse
            IN  IF ~fitok \/ ftest.kind = "raise" \/ WriteRaises(ftest)
                THEN \* f.fit_toas(), Ftest or the write raised: the epoch
                     \* stays masked, nothing is written
                     /\ pc' = IF ~fitok THEN "raised_fit"
                              ELSE IF ftest.kind = "raise" THEN "raised_ftest"
                              ELSE "raised_write"
                     /\ table' = masked
                     /\ table_selects' = stack
                     /\ UNCHANGED <<model, todo, epochs_to_drop, fout, evals>>
                ELSE /\ epochs_to_drop' =
                        IF fit_init.ndof # ndof /\ BelowThreshold(ftest)
                        THEN Append(epochs_to_drop, filename)
                        ELSE epochs_to_drop
                     /\ fout' = [fout EXCEPT !.lines = Append(@,
                            SummaryLine(filename, receiver, mjd,
                                        fit_init.ntoas - ntoas, ftest, sum))]
                     /\ table' = RestoreTable(masked, stack)
                     /\ table_selects' = UnselectStack(stack)
                     /\ UNCHANGED model
                     /\ evals' = evals \cup
                          {[filename |-> filename, start |-> table,
                            base |-> [chi2 |-> fit_init.chi2, ndof |-> fit_init.ndof],
                            chi2 |-> chi2, ndof |-> ndof, ftest |-> ftest,
                            dmxindex |-> dmxindex, newmodel |-> newmodel]}
                     /\ todo' = todo \ {filename}
                     /\ pc' = "ep_loop"
    /\ UNCHANGED <<orig_table, method, pout, pout_bound, fit_init, files,
                   calls, input, ft>>

\* line 254: the loop is over, fout.close()
EpClose ==
    /\ pc = "ep_loop"
    /\ todo = {}
    /\ fout' = [fout EXCEPT !.open = FALSE]
    /\ pc' = "ep_cut"
    /\ UNCHANGED <<orig_table, table, table_selects, model, method, pout,
                   pout_bound, fit_init, todo, epochs_to_drop, evals, files,
                   calls, input, ft>>

RECURSIVE CutEpochs(_, _, _)
\* lines 258-260: apply_cut_flag for every epoch of the list, in order
CutEpochs(ot, t, etd) ==
    IF etd = <<>> THEN ot
    ELSE CutEpochs(ApplyCutFlag(ot, EpochDropInds(ot, t, Head(etd)), "epochdrop"),
                   t, Tail(etd))

\* lines 256-267: cut flags, then the cut and the DMX set-up when an epoch
\* was dropped
EpApplyCuts ==
    /\ pc = "ep_cut"
    /\ LET ot == CutEpochs(orig_table, table, epochs_to_drop)
       IN  /\ orig_table' = ot
           /\ IF NeedsCut(epochs_to_drop)
              THEN /\ table' = CutSelect(ot)
                   /\ model' = SetupDmx(model, ot, CutSelect(ot))
                   /\ calls' = [calls EXCEPT
                                  !.apply_cut_flag = @ + Len(epochs_to_drop),
                                  !.apply_cut_select = @ + 1,
                                  !.setup_dmx = @ + 1]
              ELSE /\ calls' = [calls EXCEPT
                                  !.apply_cut_flag = @ + Len(epochs_to_drop)]
                   /\ UNCHANGED <<table, model>>
    /\ pc' = "ep_write"
    /\ UNCHANGED <<table_selects, method, pout, pout_bound, fit_init, todo,
                   epochs_to_drop, fout, evals, files, input, ft>>

\* lines 269-273: the full table made visible, _excise.tim written
EpWriteTim ==
    /\ pc = "ep_write"
    /\ table' = FullTable(orig_table)
    /\ files' = [files EXCEPT
                   !.excise = <<TimFile(model, orig_table, FullTable(orig_table))>>]
    /\ pc' = "ep_resume"
    /\ UNCHANGED <<orig_table, table_selects, model, method, pout, pout_bound,
                   fit_init, todo, epochs_to_drop, fout, evals, calls, input, ft>>

\* line 276: apply_cut_select
EpResume ==
    /\ pc = "ep_resume"
    /\ table' = CutSelect(orig_table)
    /\ calls' = [calls EXCEPT !.apply_cut_select = @ + 1]
    /\ pc' = "done"
    /\ UNCHANGED <<orig_table, table_selects, model, method, pout, pout_bound,
                   fit_init, todo, epochs_to_drop, fout, evals, files, input, ft>>

----------------------------------------------------------------------------
(* calculate_pout, lines 83-120 *)

\* lines 98, 103: the methods that bind pout
Recognized(m) == m \in {"hmc", "gibbs"}

\* pout read one place off the row's position in the view
SetPoutShifted(ot, t, m, p) ==
    [i \in 1..Len(ot) |->
        IF \E k \in 1..Len(t) : t[k] = i
        THEN LET k == CHOOSE k \in 1..Len(t) : t[k] = i
                 v == p[(k % Len(t)) + 1]
             IN  IF m = "hmc" THEN [ot[i] EXCEPT !.flags.pout_hmc = <<v>>]
                 ELSE [ot[i] EXCEPT !.flags.pout_gibbs = <<v>>]
        ELSE ot[i]]

\* lines 110-111: orig_table[oi]['flags']['pout_<method>'] = pout[i] for the
\* i-th index oi of the view
SetPoutFlags(ot, t, m, p) ==
    [i \in 1..Len(ot) |->
        IF \E k \in 1..Len(t) : t[k] = i
        THEN LET k == CHOOSE k \in 1..Len(t) : t[k] = i
             IN  IF m = "hmc" THEN [ot[i] EXCEPT !.flags.pout_hmc = <<p[k]>>]
                 ELSE [ot[i] EXCEPT !.flags.pout_gibbs = <<p[k]>>]
        ELSE ot[i]]

\* line 114: toas.table = toas.orig_table
WriteView(ot, t) == FullTable(ot)

\* lines 93-107: the sampler of the configured method returns one probability
\* per visible TOA; any other method is logged and leaves pout unbound
PoSample ==
    /\ pc = "po_start"
    /\ IF Recognized(method)
       THEN /\ pout' \in [1..Len(table) -> PoutVals]
            /\ pout_bound' = TRUE
       ELSE /\ pout' = <<>>
            /\ pout_bound' = FALSE
    /\ pc' = "po_flags"
    /\ UNCHANGED <<orig_table, table, table_selects, model, method, fit_init,
                   todo, epochs_to_drop, fout, evals, files, calls, input, ft>>

\* lines 110-111: the loop over the view; its body reads pout first, which
\* raises UnboundLocalError when pout is unbound
PoApplyFlags ==
    /\ pc = "po_flags"
    /\ IF Len(table) = 0
       THEN /\ pc' = "po_write"
            /\ UNCHANGED orig_table
       ELSE IF ~pout_bound
       THEN /\ pc' = "raised_pout"
            /\ UNCHANGED orig_table
       ELSE /\ orig_table' = SetPoutFlags(orig_table, table, method, pout)
            /\ pc' = "po_write"
    /\ UNCHANGED <<table, table_selects, model, method, pout, pout_bound,
                   fit_init, todo, epochs_to_drop, fout, evals, files, calls,
                   input, ft>>

\* lines 113-117: the full table made visible, _pout.tim written
PoWriteTim ==
    /\ pc = "po_write"
    /\ table' = WriteView(orig_table, table)
    /\ files' = [files EXCEPT
                   !.pout = <<TimFile(model, orig_table, WriteView(orig_table, table))>>]
    /\ pc' = "po_resume"
    /\ UNCHANGED <<orig_table, table_selects, model, method, pout, pout_bound,
                   fit_init, todo, epochs_to_drop, fout, evals, calls, input, ft>>

\* line 120: apply_cut_select
PoResume ==
    /\ pc = "po_resume"
    /\ table' = CutSelect(orig_table)
    /\ calls' = [calls EXCEPT !.apply_cut_select = @ + 1]
    /\ pc' = "done"
    /\ UNCHANGED <<orig_table, table_selects, model, method, pout, pout_bound,
                   fit_init, todo, epochs_to_drop, fout, evals, files, input, ft>>

----------------------------------------------------------------------------
(* Specifications *)

NoFiles == [excise |-> <<>>, pout |-> <<>>]
NoCalls == [apply_cut_flag |-> 0, apply_cut_select |-> 0, setup_dmx |-> 0]
NoFtest == [chi2_1 |-> 0, dof_1 |-> 0, chi2_2 |-> 0, dof_2 |-> 0,
            called |-> FALSE, result |-> PyFalse]

\* The state a pipeline is entered in: a TOA set whose cut rows are masked
\* and the model with every window.
InitCommon ==
    /\ table = CutSelect(orig_table)
    /\ table_selects = <<>>
    /\ pout = <<>>
    /\ pout_bound = FALSE
    /\ fit_init = NoEpoch
    /\ todo = {}
    /\ epochs_to_drop = <<>>
    /\ fout = [open |-> FALSE, lines |-> <<>>]
    /\ evals = {}
    /\ files = NoFiles
    /\ calls = NoCalls
    /\ input = [orig_table |-> orig_table, table |-> table, model |-> model]
    /\ ft = NoFtest

Init ==
    /\ \/ /\ pc = "ep_start"
          /\ method = "hmc"
          /\ orig_table \in [1..MaxToas -> EpToa]
          /\ \E frozen \in BOOLEAN : model = InputModel(frozen)
       \/ /\ pc = "po_start"
          /\ method \in Methods
          /\ orig_table \in [1..MaxToas -> PoToa]
          /\ model = InputModel(FALSE)
    /\ InitCommon

Next ==
    \/ EpBegin
    \/ EpIterate
    \/ EpClose
    \/ EpApplyCuts
    \/ EpWriteTim
    \/ EpResume
    \/ PoSample
    \/ PoApplyFlags
    \/ PoWriteTim
    \/ PoResume

Spec == Init /\ [][Next]_vars

\* Ftest on its own: every argument from a bounded range
InitFtest ==
    /\ pc = "ftest"
    /\ orig_table = <<>>
    /\ table = <<>>
    /\ table_selects = <<>>
    /\ model = InputModel(FALSE)
    /\ method = "hmc"
    /\ pout = <<>>
    /\ pout_bound = FALSE
    /\ fit_init = NoEpoch
    /\ todo = {}
    /\ epochs_to_drop = <<>>
    /\ fout = [open |-> FALSE, lines |-> <<>>]
    /\ evals = {}
    /\ files = NoFiles
    /\ calls = NoCalls
    /\ input = [orig_table |-> <<>>, table |-> <<>>, model |-> model]
    /\ ft = NoFtest

FtestCall ==
    /\ pc = "ftest"
    /\ \E chi2_1 \in 0..MaxArg, dof_1 \in 0..MaxArg,
          chi2_2 \in 0..MaxArg, dof_2 \in 0..MaxArg, cdf \in FdtrVals :
          ft' = [chi2_1 |-> chi2_1, dof_1 |-> dof_1, chi2_2 |-> chi2_2,
                 dof_2 |-> dof_2, called |-> TRUE,
                 result |-> Ftest(chi2_1, dof_1, chi2_2, dof_2, cdf)]
    /\ UNCHANGED <<pc, orig_table, table, table_selects, model, method, pout,
                   pout_bound, fit_init, todo, epochs_to_drop, fout, evals,
                   files, calls, input>>

NextFtest == FtestCall

SpecFtest == InitFtest /\ [][NextFtest]_vars

----------------------------------------------------------------------------
(* Properties *)

Returned == pc = "done"
EpReturned == pc = "done" /\ files.excise # <<>>
PoReturned == pc = "done" /\ files.pout # <<>>
LoopCompleted == pc \in {"ep_cut", "ep_write", "ep_resume"} \/ EpReturned
Raised == pc \in {"raised_getattr", "raised_fit", "raised_ftest",
                  "raised_write", "raised_pout"}

\* the rows of the full table whose 'name' tag is the epoch
RowsOfEpoch(filename) ==
    {i \in 1..Len(input.orig_table) : input.orig_table[i].flags.name = filename}

\* the epochs of the TOAs visible when the pipeline was entered
VisibleEpochs ==
    {input.orig_table[input.table[k]].flags.name : k \in 1..Len(input.table)}

\* C1: once epochalyptica has returned, every TOA of the full table tagged
\* with an evaluated epoch whose removal changed dof and whose F-test value
\* was strictly below ftest_threshold carries the cut 'epochdrop', and no TOA
\* of an epoch whose F-test value was at or above ftest_threshold has a cut
\* flag other than the one it came with.
C1_DropBelowThreshold ==
    EpReturned =>
        \A e \in evals :
            /\ (e.ndof # e.base.ndof /\ ~e.ftest.nan /\ e.ftest.val < ftest_threshold)
                  => \A i \in RowsOfEpoch(e.filename) :
                        orig_table[i].flags.cut = "epochdrop"
            /\ (~e.ftest.nan /\ e.ftest.val >= ftest_threshold)
                  => \A i \in RowsOfEpoch(e.filename) :
                        orig_table[i].flags.cut = input.orig_table[i].flags.cut

\* an epoch with a numeric F-test below the threshold was dropped and its
\* TOAs carry the cut once the function has returned
C1_Witness ==
    /\ EpReturned
    /\ \E e \in evals :
          /\ e.ndof # e.base.ndof
          /\ e.ftest.kind = "float"
          /\ ~e.ftest.nan
          /\ e.ftest.val < ftest_threshold
          /\ \A i \in RowsOfEpoch(e.filename) :
                orig_table[i].flags.cut = "epochdrop"

\* C2: Ftest returns the sentinel False whenever chi2_2 >= chi2_1, and a
\* float only when chi2_2 < chi2_1.
C2_SentinelUnlessImproved ==
    ft.called =>
        /\ (ft.chi2_2 >= ft.chi2_1 => ft.result = PyFalse)
        /\ (ft.result.kind = "float" => ft.chi2_2 < ft.chi2_1)

\* Ftest was called with equal chi2 and fewer dof, and gave the sentinel
C2_Witness ==
    /\ ft.called
    /\ ft.chi2_1 > 0
    /\ ft.chi2_2 = ft.chi2_1
    /\ ft.dof_1 > ft.dof_2
    /\ ft.dof_2 > 0
    /\ ft.result = PyFalse

\* C3: at the start of every iteration of the epoch loop the TOA set is the
\* one the initial fit used (same visible rows, same flags, nothing left on
\* the select stack), and every F-test evaluated so far started from that
\* view and compared against the chi2 and dof of the initial fit.
C3_EachEpochAgainstOriginal ==
    /\ pc = "ep_loop" =>
          /\ table = input.table
          /\ orig_table = input.orig_table
          /\ table_selects = <<>>
          /\ fit_init.ndof = Dof(Len(input.table), input.model)
          /\ fit_init.ntoas = Len(input.table)
    /\ \A e \in evals :
          /\ e.start = input.table
          /\ e.base = [chi2 |-> fit_init.chi2, ndof |-> fit_init.ndof]

\* one epoch has been masked, refit and restored, another is still to come
C3_Witness ==
    /\ pc = "ep_loop"
    /\ Cardinality(evals) = 1
    /\ todo # {}
    /\ \E e \in evals : Len(e.start) > Cardinality(EpochRows(orig_table, e.start, e.filename))

\* C4: with a method that is neither 'hmc' nor 'gibbs', calculate_pout never
\* returns normally, sets no pout flag and writes no _pout.tim file.
C4_UnrecognizedMethodFails ==
    method \notin {"hmc", "gibbs"} =>
        /\ pc # "done"
        /\ files.pout = <<>>
        /\ \A i \in 1..Len(orig_table) :
              /\ orig_table[i].flags.pout_hmc = <<>>
              /\ orig_table[i].flags.pout_gibbs = <<>>

\* C5: when the epoch loop has run to completion, epochdrop.txt holds
\* exactly one line for every distinct 'name' tag of the visible TOAs and no
\* other line, whether the epoch's F-test value is a float or the sentinel;
\* and no write of a line raises.
C5_OneLinePerEpoch ==
    /\ pc # "raised_write"
    /\ LoopCompleted =>
          /\ Len(fout.lines) = Cardinality(VisibleEpochs)
          /\ \A n \in VisibleEpochs :
                Cardinality({k \in 1..Len(fout.lines) : fout.lines[k].filename = n}) = 1

\* the loop completed over two epochs, one with the sentinel and one with a
\* float
C5_Witness ==
    /\ LoopCompleted
    /\ Len(fout.lines) = 2
    /\ \E e \in evals : e.ftest.kind = "bool"
    /\ \E e \in evals : e.ftest.kind = "float"

\* C6: when no epoch was recorded as to-drop, apply_cut_flag and setup_dmx
\* are not invoked, no cut flag and no model parameter changes, and
\* _excise.tim is written from the original model with every row of the
\* original table visible.
C6_NothingDroppedNothingCut ==
    (LoopCompleted /\ pc # "ep_cut" /\ epochs_to_drop = <<>>) =>
        /\ calls.apply_cut_flag = 0
        /\ calls.setup_dmx = 0
        /\ orig_table = input.orig_table
        /\ model = input.model
        /\ files.excise # <<>> =>
              /\ files.excise[1].model = input.model
              /\ files.excise[1].index = [i \in 1..Len(input.orig_table) |-> i]
              /\ files.excise[1].rows = input.orig_table

\* the function returned with epochs evaluated, none dropped, and some TOA
\* cut before the call
C6_Witness ==
    /\ EpReturned
    /\ epochs_to_drop = <<>>
    /\ evals # {}
    /\ Len(input.table) < Len(input.orig_table)

\* C7: no path leaves epochalyptica with the epochdrop.txt handle open,
\* whether it returns or an exception propagates out of the loop.
C7_HandleAlwaysClosed ==
    (Returned \/ Raised) => ~fout.open

\* C8: after calculate_pout has run with 'hmc' or 'gibbs', the i-th visible
\* TOA carries pout_<method> equal to the i-th probability of the sampler,
\* the TOAs masked at call time carry no pout flag, and _pout.tim, written
\* only after that, holds every row of the full table with these flags.
C8_PoutFlagsInTableOrder ==
    /\ pc \in {"po_start", "po_flags"} => files.pout = <<>>
    /\ (method \in {"hmc", "gibbs"} /\ (pc \in {"po_write", "po_resume"} \/ PoReturned)) =>
          /\ \A k \in 1..Len(input.table) :
                LET fl == orig_table[input.table[k]].flags
                IN  IF method = "hmc"
                    THEN fl.pout_hmc = <<pout[k]>> /\ fl.pout_gibbs = <<>>
                    ELSE fl.pout_gibbs = <<pout[k]>> /\ fl.pout_hmc = <<>>
          /\ \A i \in 1..Len(orig_table) :
                (\A k \in 1..Len(input.table) : input.table[k] # i) =>
                    /\ orig_table[i].flags.pout_hmc = <<>>
                    /\ orig_table[i].flags.pout_gibbs = <<>>
          /\ files.pout # <<>> =>
                /\ files.pout[1].index = [i \in 1..Len(orig_table) |-> i]
                /\ files.pout[1].rows = orig_table

\* gibbs ran over at least two visible TOAs with distinct probabilities and
\* a masked TOA, and the file was written
C8_Witness ==
    /\ PoReturned
    /\ method = "gibbs"
    /\ Len(input.table) >= 2
    /\ Len(input.table) < Len(input.orig_table)
    /\ pout[1] # pout[2]

\* C9: an epoch whose F-test is the sentinel False is never recorded in
\* epochs_to_drop, and none of its TOAs receives the cut 'epochdrop'.
C9_SentinelNeverDropped ==
    \A e \in evals :
        e.ftest.kind = "bool" =>
            /\ \A k \in 1..Len(epochs_to_drop) : epochs_to_drop[k] # e.filename
            /\ \A i \in RowsOfEpoch(e.filename) :
                  orig_table[i].flags.cut # "epochdrop"

\* the epoch's visible TOAs all lie strictly inside window w
EpochEntirelyIn(e, w) ==
    \A k \in EpochRows(input.orig_table, e.start, e.filename) :
        /\ input.orig_table[e.start[k]].mjd > DMXR1(w)
        /\ input.orig_table[e.start[k]].mjd < DMXR2(w)

\* no visible TOA of another epoch lies strictly inside window w
NoneLeftIn(e, w) ==
    \A k \in 1..Len(e.start) :
        input.orig_table[e.start[k]].flags.name # e.filename =>
            ~ (/\ input.orig_table[e.start[k]].mjd > DMXR1(w)
               /\ input.orig_table[e.start[k]].mjd < DMXR2(w))

WindowRemoved(m, w) ==
    \A par \in {"DMXR1", "DMXR2", "DMX"} : ~HasParam(m, par, w)
WindowIntact(m, w) ==
    \A par \in {"DMXR1", "DMXR2", "DMX"} : HasParam(m, par, w)

\* C10: the model refit for an epoch lacks the three parameters of a window
\* if and only if the epoch lies entirely within that window and no visible
\* TOA remains strictly inside it once the epoch is masked; every other
\* window is intact, and the caller's model keeps every parameter.
C10_WindowRemovedIff ==
    /\ model = input.model \/ calls.setup_dmx > 0
    /\ \A e \in evals : \A w \in WindowIdx :
          /\ WindowRemoved(e.newmodel, w) \/ WindowIntact(e.newmodel, w)
          /\ WindowRemoved(e.newmodel, w) <=> (EpochEntirelyIn(e, w) /\ NoneLeftIn(e, w))

====
